---- MODULE Spec2Model ----
(***************************************************************************)
(* Model of the telegram-md-bot repository.  The repository holds six      *)
(* near-duplicate bot programs; `variant` says which one is running:       *)
(*   "index"    src/index.js                 group bot, optional store      *)
(*   "personal" src/unnamed/part_000:1-338   personal bot with /connect     *)
(*   "group"    src/unnamed/part_000:340-720 group-management bot           *)
(*   "minimal"  src/unnamed/part_001         /start /help /ping             *)
(*   "link"     src/unnamed/part_002:1-128   minimal bot with /connect      *)
(*   "full"     src/unnamed/part_002:129-543 personal bot with settings     *)
(* Handlers run only while the bot is polling (phase = "running").  Every  *)
(* store operation of a handler may fail (the driver rejects); a handle    *)
(* that was never assigned makes the call a TypeError.                      *)
(***************************************************************************)
EXTENDS Integers, Sequences, FiniteSets, TLC

VARIABLES variant, env, phase, boot, handles, users, settings, links, bc, last, prev,
          race, cr, timers

vars == <<variant, env, phase, boot, handles, users, settings, links, bc, last, prev,
          race, cr, timers>>

\* ---------------------------------------------------------------- bounds
NumUsers == 2
NumCodes == 2
MaxTimers == 2

Users == 1..NumUsers

\* ---------------------------------------------------------------- constants
Variants == {"index", "personal", "group", "minimal", "link", "full"}

CodeMin == 100000
CodeSpan == 900000

\* Math.floor(100000 + Math.random() * 900000): an integer of
\* [100000, 999999]; the model draws it from both ends of the range.
LinkingCodes ==
  {CodeMin + k : k \in 0..(NumCodes - 2)} \cup {CodeMin + CodeSpan - 1}

NoCode == 0
NoDoc == [present |-> FALSE, autoreact |-> FALSE, autoreact_emojis |-> <<>>]

\* the document initSettings inserts (the fields the handlers read)
DefaultSettings ==
  [present |-> TRUE, autoreact |-> TRUE,
   autoreact_emojis |-> <<"thumbsup", "heart", "fire">>]

\* ADMINS: unset, or a comma-separated list naming user 1
AdminConfigs == {[set |-> FALSE, list |-> <<>>], [set |-> TRUE, list |-> <<"1">>]}

\* ctx.from.id.toString() and `${count}` for the small numbers of the model
NumToString(n) ==
  CASE n = 0 -> "0" [] n = 1 -> "1" [] n = 2 -> "2" [] n = 3 -> "3"
    [] n = 4 -> "4" [] OTHER -> "many"

\* ---------------------------------------------------------------- events
\* What the latest handler did: its replies and its platform calls.
Event(cmd, from, arg, reply, code, gen, counts, reacts, restricts, threw) ==
  [cmd |-> cmd, from |-> from, arg |-> arg, reply |-> reply, code |-> code,
   gen |-> gen, counts |-> counts, reacts |-> reacts, restricts |-> restricts,
   threw |-> threw, logged |-> FALSE, nexts |-> 0]

\* the handler caught an error and wrote it to console.error
Logged(e) == [e EXCEPT !.logged = TRUE]

\* the handler called next(), handing the update to the handlers registered after it
Passed(e) == [e EXCEPT !.nexts = @ + 1]

NoEvent == Event("none", 0, "", "none", NoCode, NoCode, <<>>, <<>>, 0, FALSE)

Brief(e) == [cmd |-> e.cmd, arg |-> e.arg, reply |-> e.reply]

\* No variant registers bot.catch: an error that escapes a handler reaches the
\* library's default error handler, which rethrows it and ends the polling loop,
\* so the bot handles no further update.
AfterHandler(e) == IF e.threw THEN "stopped" ELSE "running"

\* a handler ran: `last` becomes its event and the one before it `prev`
Handled(e) ==
  /\ last' = e
  /\ prev' = Brief(last)
  /\ phase' = AfterHandler(e)

BcIdle ==
  [pc |-> "idle", users |-> <<>>, idx |-> 1, success |-> 0, fail |-> 0,
   attempts |-> <<>>, results |-> <<>>, inflight |-> 0, calls |-> 0,
   delays |-> 0, report |-> <<>>]

\* ---------------------------------------------------------------- startup
\* two instances of the program start against one settings collection
Callers == {1, 2}

SettingsId == "global"

\* each caller of initSettings is before its findOne; docs: the _id values of
\* the documents of the settings collection; dup: the caller's insertOne met
\* the duplicate-key error
RaceIdle ==
  [pc |-> [p \in Callers |-> "find"], docs |-> <<>>,
   dup |-> [p \in Callers |-> FALSE]]

\* two /connect updates of one user, taken from one batch of updates
CrHandlers == {1, 2}

\* ctx.from.id of both updates
RaceUser == 1

\* each handler is before its findOne; code: the linkingCode it generated;
\* out: what it replied; docs: the codes of the user's device_links documents
CrIdle ==
  [pc |-> [h \in CrHandlers |-> "find"], code |-> [h \in CrHandlers |-> NoCode],
   out |-> [h \in CrHandlers |-> "none"], docs |-> <<>>]

Init ==
  /\ variant \in Variants
  /\ env \in [token : BOOLEAN, mongoUri : BOOLEAN, ADMINS : AdminConfigs]
  /\ phase = "load"
  /\ boot = [botCreated |-> FALSE, mongoCreated |-> FALSE, connectTried |-> FALSE,
             launchTried |-> FALSE, exitCode |-> -1]
  /\ handles = {}
  /\ users = <<>>
  /\ settings = NoDoc
  /\ links = [u \in Users |-> NoCode]
  /\ bc = BcIdle
  /\ last = NoEvent
  /\ prev = Brief(NoEvent)
  /\ race = RaceIdle
  /\ cr = CrIdle
  /\ timers = <<>>

\* if (!process.env.BOT_TOKEN) { ...; process.exit(1) }: absent from the
\* group-management variant
HasTokenCheck(v) == v # "group"

\* Module top level: token check, new Telegraf(token), and in the
\* group-management variant new MongoClient(process.env.MONGO_URI), which
\* throws on an undefined URI.
LoadModule ==
  /\ phase = "load"
  /\ IF HasTokenCheck(variant) /\ ~env.token
       THEN /\ phase' = "exited"
            /\ boot' = [boot EXCEPT !.exitCode = 1]
       ELSE IF variant = "group"
         THEN IF env.mongoUri
                THEN /\ phase' = "connect"
                     /\ boot' = [boot EXCEPT !.botCreated = TRUE, !.mongoCreated = TRUE]
                ELSE /\ phase' = "exited"
                     /\ boot' = [boot EXCEPT !.botCreated = TRUE, !.exitCode = 1]
         ELSE /\ phase' = "connect"
              /\ boot' = [boot EXCEPT !.botCreated = TRUE]
  /\ UNCHANGED <<variant, env, handles, users, settings, links, bc, last, prev, race, cr, timers>>

\* the collection handles connectDB assigns after a successful connect
HandlesOf(v) ==
  CASE v = "index" -> {"users", "groups", "settings"}
    [] v = "personal" -> {"users", "sessions", "settings", "links"}
    [] v = "group" -> {"users", "groups", "settings"}
    [] v = "minimal" -> {"users"}
    [] v = "link" -> {"users", "links"}
    [] v = "full" -> {"users", "sessions", "settings"}

HasInitSettings(v) == v \in {"index", "personal", "group", "full"}

AfterConnect(v) == IF HasInitSettings(v) THEN "init" ELSE "launch"

\* connectDB: returns at once without a URI; connect may fail; the handles are
\* assigned before the indexes are created, and every failure is caught, except
\* in the group-management variant, whose failure reaches startBot's catch.
\* the variants whose connectDB awaits createIndex after assigning the handles
HasIndexes(v) == v \in {"personal", "link", "full"}

\* how a connection attempt can end: mongoClient.connect() rejects, a
\* createIndex rejects, or nothing does
ConnectOutcomes(v) ==
  IF HasIndexes(v) THEN {"connect_fail", "index_fail", "ok"} ELSE {"connect_fail", "ok"}

\* connectDB with a URI, ending in the given way
ConnectDBOutcome(outcome) ==
  /\ phase = "connect"
  /\ ~(variant # "group" /\ ~env.mongoUri)
  /\ outcome \in ConnectOutcomes(variant)
  /\ boot' = [boot EXCEPT !.mongoCreated = TRUE, !.connectTried = TRUE]
  /\ IF outcome = "connect_fail"
       THEN /\ handles' = {}
            /\ phase' = IF variant = "group" THEN "stalled"
                        ELSE AfterConnect(variant)
       ELSE /\ handles' = HandlesOf(variant)
            /\ phase' = AfterConnect(variant)
  /\ UNCHANGED <<variant, env, users, settings, links, bc, last, prev, race, cr, timers>>

ConnectDB ==
  \/ /\ phase = "connect"
     /\ variant # "group" /\ ~env.mongoUri
     /\ phase' = AfterConnect(variant)
     /\ UNCHANGED <<boot, handles>>
     /\ UNCHANGED <<variant, env, users, settings, links, bc, last, prev, race, cr, timers>>
  \/ \E outcome \in {"connect_fail", "index_fail", "ok"} : ConnectDBOutcome(outcome)

\* initSettings: insert the default document when none is found; errors are
\* caught, except in the group-management variant.
InitSettings ==
  /\ phase = "init"
  /\ IF "settings" \notin handles
       THEN /\ phase' = IF variant = "group" THEN "stalled" ELSE "launch"
            /\ UNCHANGED settings
       ELSE \E dbOk \in BOOLEAN :
              IF dbOk
                THEN /\ settings' = IF settings.present THEN settings ELSE DefaultSettings
                     /\ phase' = "launch"
                ELSE /\ UNCHANGED settings
                     /\ phase' = IF variant = "group" THEN "stalled" ELSE "launch"
  /\ UNCHANGED <<variant, env, boot, handles, users, links, bc, last, prev, race, cr, timers>>

\* bot.launch(): fails without a token; otherwise it may fail on the network.
\* full and personal exit(1) from startBot's catch, minimal and link only log,
\* index and group leave the rejection unhandled.
Launch ==
  /\ phase = "launch"
  /\ \E netOk \in BOOLEAN :
       IF netOk /\ env.token
         THEN /\ phase' = "running"
              /\ boot' = [boot EXCEPT !.launchTried = TRUE]
         ELSE \E crash \in BOOLEAN :
                LET exits == IF variant \in {"full", "personal"} THEN TRUE
                             ELSE IF variant \in {"minimal", "link"} THEN FALSE
                             ELSE crash
                IN /\ phase' = IF exits THEN "exited" ELSE "stalled"
                   /\ boot' = [boot EXCEPT !.launchTried = TRUE,
                                           !.exitCode = IF exits THEN 1 ELSE -1]
  /\ UNCHANGED <<variant, env, handles, users, settings, links, bc, last, prev, race, cr, timers>>

\* initSettings wraps its body in try/catch, except in the group-management
\* variant, where a rejection reaches the caller, startBot
InitSettingsCatches(v) == v \in {"index", "personal", "full"}

\* where an error inside initSettings leaves its caller
AfterInitError(v) == IF InitSettingsCatches(v) THEN "done" ELSE "raised"

HasId(docs, id) == \E i \in DOMAIN docs : docs[i] = id

\* const settings = await settingsCollection.findOne({ _id: 'global' })
RaceFind(p) ==
  /\ phase = "init"
  /\ "settings" \in handles
  /\ race.pc[p] = "find"
  /\ \E dbOk \in BOOLEAN :
       race' = [race EXCEPT !.pc[p] =
                  IF ~dbOk THEN AfterInitError(variant)
                  ELSE IF HasId(race.docs, SettingsId) THEN "done"
                  ELSE "insert"]
  /\ UNCHANGED <<variant, env, phase, boot, handles, users, settings, links, bc, last, prev, cr, timers>>

\* if (!settings) await settingsCollection.insertOne({ _id: 'global', ... }):
\* the store rejects an _id that is already there with a duplicate-key error
RaceInsert(p) ==
  /\ phase = "init"
  /\ race.pc[p] = "insert"
  /\ \E dbOk \in BOOLEAN :
       IF ~dbOk
         THEN /\ race' = [race EXCEPT !.pc[p] = AfterInitError(variant)]
              /\ UNCHANGED settings
       ELSE IF HasId(race.docs, SettingsId)
         THEN /\ race' = [race EXCEPT !.pc[p] = AfterInitError(variant),
                                      !.dup[p] = TRUE]
              /\ UNCHANGED settings
       ELSE /\ race' = [race EXCEPT !.pc[p] = "done",
                                    !.docs = Append(@, SettingsId)]
            /\ settings' = DefaultSettings
  /\ UNCHANGED <<variant, env, phase, boot, handles, users, links, bc, last, prev, cr, timers>>

\* two instances run initSettings against the one store, step by step
NextInitRace ==
  \/ LoadModule
  \/ ConnectDB
  \/ \E p \in Callers : RaceFind(p)
  \/ \E p \in Callers : RaceInsert(p)

SpecInitRace == Init /\ [][NextInitRace]_vars

Boot == LoadModule \/ ConnectDB \/ InitSettings \/ Launch

\* ---------------------------------------------------------------- /start
StartCatches(v) == v \in {"index", "personal", "full"}

UpsertUser_insert(us, u) == Append(us, u)

\* updateOne({_id}, {$set}, {upsert: true}): a new id is appended in store order
UpsertUser(us, u) ==
  IF \E i \in 1..Len(us) : us[i] = u THEN us ELSE Append(us, u)

Start(u) ==
  /\ phase = "running"
  /\ IF "users" \in handles
       THEN \E dbOk \in BOOLEAN :
              IF dbOk
                THEN /\ users' = UpsertUser(users, u)
                     /\ Handled(Event("start", u, "", "welcome", NoCode, NoCode,
                                      <<>>, <<>>, 0, FALSE))
                ELSE /\ UNCHANGED users
                     /\ IF StartCatches(variant)
                          THEN Handled(Logged(Event("start", u, "", "welcome", NoCode,
                                                    NoCode, <<>>, <<>>, 0, FALSE)))
                          ELSE Handled(Event("start", u, "", "none", NoCode, NoCode,
                                             <<>>, <<>>, 0, TRUE))
       ELSE /\ UNCHANGED users
            /\ IF variant = "group"
                 THEN Handled(Event("start", u, "", "none", NoCode, NoCode,
                                    <<>>, <<>>, 0, TRUE))
                 ELSE Handled(Event("start", u, "", "welcome", NoCode, NoCode,
                                    <<>>, <<>>, 0, FALSE))
  /\ UNCHANGED <<variant, env, boot, handles, settings, links, bc, race, cr, timers>>

\* ---------------------------------------------------------------- /connect
HasConnect(v) == v \in {"link", "personal"}

\* part_002 wraps the handler body in try/catch; part_000 does not
ConnectCatches(v) == v = "link"

Regenerates_always(existing) == TRUE

\* if (existing) return ...: a code is generated only when no record is found
Regenerates(existing) == existing = NoCode

\* the code the "already linked" reply carries: part_002 quotes existing.code,
\* part_000 says only that the device is already linked
AlreadyLinkedCode(v, existing) == IF v = "link" THEN existing ELSE NoCode

\* ops: the number of linksCollection operations the handler issued
ConnectEvent(u, reply, code, gen, threw, ops) ==
  Event("connect", u, "", reply, code, gen, <<>>, <<>>, 0, threw) @@ [ops |-> ops]

ConnectFailed(u, gen, ops) ==
  IF ConnectCatches(variant)
    THEN Handled(Logged(ConnectEvent(u, "failed", NoCode, gen, FALSE, ops)))
    ELSE Handled(ConnectEvent(u, "none", NoCode, gen, TRUE, ops))

LinksUnset_never(h) == FALSE

\* if (!linksCollection) return ctx.reply('Database connection required ...')
LinksUnset(h) == "links" \notin h

Connect(u) ==
  /\ phase = "running"
  /\ HasConnect(variant)
  /\ IF LinksUnset(handles)
       THEN /\ Handled(ConnectEvent(u, "db_required", NoCode, NoCode, FALSE, 0))
            /\ UNCHANGED links
       ELSE \E findOk \in BOOLEAN :
              IF ~findOk
                THEN ConnectFailed(u, NoCode, 1) /\ UNCHANGED links
                ELSE IF ~Regenerates(links[u])
                  THEN /\ Handled(ConnectEvent(u, "already_linked",
                                    AlreadyLinkedCode(variant, links[u]), NoCode, FALSE, 1))
                       /\ UNCHANGED links
                  ELSE \E linkingCode \in LinkingCodes, writeOk \in BOOLEAN, replyOk \in BOOLEAN :
                         IF ~writeOk
                           THEN ConnectFailed(u, linkingCode, 2) /\ UNCHANGED links
                           ELSE /\ links' = [links EXCEPT ![u] = linkingCode]
                                /\ IF replyOk \/ ~ConnectCatches(variant)
                                     THEN Handled(ConnectEvent(u, "code_generated",
                                                    linkingCode, linkingCode, FALSE, 2))
                                     ELSE ConnectFailed(u, linkingCode, 2)
  /\ UNCHANGED <<variant, env, boot, handles, users, settings, bc, race, cr, timers>>

\* ------------------------------------------------- two /connect in flight
\* the code of the user's device_links document (NoCode: findOne gives null)
Existing(docs) == IF docs = <<>> THEN NoCode ELSE docs[1]

\* updateOne({ userId }, { $set: { code } }, { upsert: true }) under the unique
\* index on userId: the matching document is updated, or one is inserted
UpsertLink(docs, code) ==
  IF docs = <<>> THEN <<code>> ELSE [docs EXCEPT ![1] = code]

\* what a handler whose body rejected leaves behind
CrError(v) == IF ConnectCatches(v) THEN "failed" ELSE "threw"

\* the handler up to the await of updateOne: the guard, findOne, the existing
\* check and Math.random
CrFind(h) ==
  /\ phase = "running"
  /\ HasConnect(variant)
  /\ cr.pc[h] = "find"
  /\ IF LinksUnset(handles)
       THEN cr' = [cr EXCEPT !.pc[h] = "done", !.out[h] = "db_required"]
       ELSE \E findOk \in BOOLEAN :
              IF ~findOk
                THEN cr' = [cr EXCEPT !.pc[h] = "done", !.out[h] = CrError(variant)]
              ELSE IF ~Regenerates(Existing(cr.docs))
                THEN cr' = [cr EXCEPT !.pc[h] = "done", !.out[h] = "already_linked"]
              ELSE \E linkingCode \in LinkingCodes :
                     cr' = [cr EXCEPT !.pc[h] = "write", !.code[h] = linkingCode]
  /\ UNCHANGED <<variant, env, phase, boot, handles, users, settings, links, bc, last, prev, race, timers>>

\* updateOne resolves or rejects, and the handler replies with its linkingCode
CrWrite(h) ==
  /\ cr.pc[h] = "write"
  /\ \E writeOk \in BOOLEAN, replyOk \in BOOLEAN :
       IF ~writeOk
         THEN /\ cr' = [cr EXCEPT !.pc[h] = "done", !.out[h] = CrError(variant)]
              /\ UNCHANGED links
         ELSE /\ cr' = [cr EXCEPT !.pc[h] = "done",
                                  !.docs = UpsertLink(@, cr.code[h]),
                                  !.out[h] = IF replyOk \/ ~ConnectCatches(variant)
                                               THEN "code_generated"
                                               ELSE CrError(variant)]
              /\ links' = [links EXCEPT ![RaceUser] = cr.code[h]]
  /\ UNCHANGED <<variant, env, phase, boot, handles, users, settings, bc, last, prev, race, timers>>

\* the device-link programs with two /connect updates of one user in flight
NextConnectRace ==
  \/ Boot
  \/ \E h \in CrHandlers : CrFind(h)
  \/ \E h \in CrHandlers : CrWrite(h)

SpecConnectRace == Init /\ [][NextConnectRace]_vars

\* ---------------------------------------------------------------- /broadcast
HasBroadcast(v) == v \in {"personal", "group", "full"}

\* admins = ADMINS ? ADMINS.split(',') : [];  admins.includes(id.toString())
IsAdmin(u) ==
  \E i \in 1..Len(env.ADMINS.list) : env.ADMINS.list[i] = NumToString(u)

\* the group-management variant calls process.env.ADMINS.split unguarded
IsAdminThrows(v) == v = "group" /\ ~env.ADMINS.set

BroadcastEvent(u, reply, threw) ==
  Event("broadcast", u, "", reply, NoCode, NoCode, <<>>, <<>>, 0, threw)

\* users = await find({}).toArray(); successCount = 0; failCount = 0;
\* ctx.reply(`Starting broadcast to ${users.length} users...`)
LoopState(us) ==
  [pc |-> "loop", users |-> us, idx |-> 1, success |-> 0, fail |-> 0,
   attempts |-> <<>>, results |-> <<>>, inflight |-> 0, calls |-> 1,
   delays |-> 0, report |-> <<>>]

OnEnumerateFail_empty(b) == LoopState(<<>>)

\* find({}).toArray() rejected: the outer catch replies once and the handler
\* ends; no loop state comes into being
OnEnumerateFail(b) == b

\* The handler up to the loop.  hasMsg: the text after "/broadcast" is not blank.
BroadcastStart(u, hasMsg) ==
  /\ phase = "running"
  /\ HasBroadcast(variant)
  /\ bc.pc \in {"idle", "done"}
  /\ IF IsAdminThrows(variant)
       THEN Handled(BroadcastEvent(u, "none", TRUE)) /\ UNCHANGED bc
     ELSE IF ~IsAdmin(u)
       THEN Handled(BroadcastEvent(u, "admin_only", FALSE)) /\ UNCHANGED bc
     ELSE IF variant = "personal" /\ "users" \notin handles
       THEN Handled(BroadcastEvent(u, "db_unavailable", FALSE)) /\ UNCHANGED bc
     ELSE IF ~hasMsg
       THEN Handled(BroadcastEvent(u, "usage", FALSE)) /\ UNCHANGED bc
     ELSE IF "users" \notin handles
       THEN /\ Handled(IF variant = "full"
                         THEN BroadcastEvent(u, "db_unavailable", FALSE)
                         ELSE Logged(BroadcastEvent(u, "error", FALSE)))
            /\ UNCHANGED bc
     ELSE \E findOk \in BOOLEAN :
            IF findOk
              THEN /\ bc' = LoopState(users)
                   /\ Handled(BroadcastEvent(u, "starting", FALSE))
              ELSE /\ Handled(Logged(BroadcastEvent(u, "error", FALSE)))
                   /\ bc' = OnEnumerateFail(bc)
  /\ UNCHANGED <<variant, env, boot, handles, users, settings, links, race, cr, timers>>

HasNext_inclusive(b) == b.idx <= Len(b.users) + 1

\* for (const user of users)
HasNext(b) == b.idx <= Len(b.users)

\* user._id of the element the loop is at (0: no such element)
Recipient(b) == IF b.idx \in DOMAIN b.users THEN b.users[b.idx] ELSE 0

\* await ctx.telegram.sendMessage(user._id, ...) is issued
BroadcastSend ==
  /\ bc.pc = "loop"
  /\ HasNext(bc)
  /\ bc' = [bc EXCEPT !.pc = "sending",
                      !.attempts = Append(@, Recipient(bc)),
                      !.inflight = @ + 1,
                      !.calls = @ + 1]
  /\ UNCHANGED <<variant, env, phase, boot, handles, users, settings, links, last, prev, race, cr, timers>>

\* the send resolved: successCount++, then the pacing delay
OnSendOk(b) == [b EXCEPT !.success = @ + 1, !.pc = "delay"]

OnSendFail_counted(b) ==
  [b EXCEPT !.success = @ + 1, !.fail = @ + 1, !.idx = @ + 1, !.pc = "loop"]

OnSendFail_break(b) ==
  [b EXCEPT !.fail = @ + 1, !.idx = Len(b.users) + 1, !.pc = "loop"]

\* the send rejected: the inner catch counts it and the loop goes on
OnSendFail(b) == [b EXCEPT !.fail = @ + 1, !.idx = @ + 1, !.pc = "loop"]

BroadcastSendResult ==
  /\ bc.pc = "sending"
  /\ \E sendOk \in BOOLEAN :
       bc' = [(IF sendOk THEN OnSendOk(bc) ELSE OnSendFail(bc))
                EXCEPT !.results = Append(@, sendOk), !.inflight = @ - 1]
  /\ UNCHANGED <<variant, env, phase, boot, handles, users, settings, links, last, prev, race, cr, timers>>

\* await new Promise((res) => setTimeout(res, 100)) elapsed
BroadcastDelay ==
  /\ bc.pc = "delay"
  /\ bc' = [bc EXCEPT !.idx = @ + 1, !.pc = "loop", !.delays = @ + 1]
  /\ UNCHANGED <<variant, env, phase, boot, handles, users, settings, links, last, prev, race, cr, timers>>

\* ctx.reply(`Broadcast completed!\nSuccess: ${successCount}\nFailed: ${failCount}`)
BroadcastReport ==
  /\ bc.pc = "loop"
  /\ ~HasNext(bc)
  /\ bc' = [bc EXCEPT !.pc = "done", !.report = <<bc.success, bc.fail>>]
  /\ UNCHANGED <<variant, env, phase, boot, handles, users, settings, links, last, prev, race, cr, timers>>

Broadcast ==
  \/ \E u \in Users, hasMsg \in BOOLEAN : BroadcastStart(u, hasMsg)
  \/ BroadcastSend
  \/ BroadcastSendResult
  \/ BroadcastDelay
  \/ BroadcastReport

\* the programs with the handlers around /broadcast
NextBroadcast == Boot \/ (\E u \in Users : Start(u)) \/ Broadcast

SpecBroadcast == Init /\ [][NextBroadcast]_vars

\* ---------------------------------------------------------------- /stats
\* The group-management variant registers /stats (part_000:664) after its
\* bot.on('message') handler (part_000:609), which never calls next(): there the
\* text "/stats" ends in the message handler and the /stats handler never runs.
HasStats(v) == v \in {"index", "personal", "full"}

StatsGuarded_none(v) == FALSE

\* if (usersCollection && <second>Collection) { try { ... } catch { log } }:
\* the group-management variant counts with neither the guard nor the try
StatsGuarded(v) == v \in {"index", "personal", "full"}

\* the second collection /stats counts
SecondCollection(v) == IF v \in {"index", "group"} THEN "groups" ELSE "sessions"

\* sessions and groups: no reachable handler inserts into them
OtherDocs == <<>>

StatsEvent(u, counts, threw) ==
  Event("stats", u, "", IF threw THEN "none" ELSE "stats", NoCode, NoCode,
        counts, <<>>, 0, threw)

Stats(u) ==
  /\ phase = "running"
  /\ HasStats(variant)
  /\ IF StatsGuarded(variant)
       THEN IF {"users", SecondCollection(variant)} \subseteq handles
              THEN \E firstOk \in BOOLEAN, secondOk \in BOOLEAN :
                     LET e == StatsEvent(u,
                           <<IF firstOk THEN NumToString(Len(users)) ELSE "N/A",
                             IF firstOk /\ secondOk THEN NumToString(Len(OtherDocs))
                             ELSE "N/A">>, FALSE)
                     IN Handled(IF firstOk /\ secondOk THEN e ELSE Logged(e))
              ELSE Handled(StatsEvent(u, <<"N/A", "N/A">>, FALSE))
       ELSE IF {"users", SecondCollection(variant), "settings"} \subseteq handles
              THEN \E dbOk \in BOOLEAN :
                     IF dbOk /\ settings.present
                       THEN Handled(StatsEvent(u, <<NumToString(Len(users)),
                                                    NumToString(Len(OtherDocs))>>, FALSE))
                       ELSE Handled(StatsEvent(u, <<>>, TRUE))
              ELSE Handled(StatsEvent(u, <<>>, TRUE))
  /\ UNCHANGED <<variant, env, boot, handles, users, settings, links, bc, race, cr, timers>>

\* ---------------------------------------------------------------- /autoreact
HasAutoreact(v) == v \in {"group", "full"}

\* ctx.message.text.split(' ')[1] for the texts "/autoreact", "/autoreact on",
\* "/autoreact off", "/autoreact OFF", "/autoreact maybe"
ArgForms == {"<none>", "on", "off", "OFF", "maybe"}

\* args[1].toLowerCase()
ToLowerCase(a) == IF a = "OFF" THEN "off" ELSE a

\* if (settingsCollection) guards the update in part_002 only
UpdateGuarded(v) == v = "full"

UpdateSetting_lost(doc, value) == doc

\* updateOne({_id: 'global'}, {$set: {autoreact: value}}) without upsert:
\* nothing is written when no document matches
UpdateSetting(doc, value) ==
  IF doc.present THEN [doc EXCEPT !.autoreact = value] ELSE doc

AutoreactEvent(u, state, reply, threw) ==
  Event("autoreact", u, state, reply, NoCode, NoCode, <<>>, <<>>, 0, threw)

Autoreact(u, arg) ==
  /\ phase = "running"
  /\ HasAutoreact(variant)
  /\ LET state == ToLowerCase(arg) IN
     IF arg = "<none>"
       THEN /\ UNCHANGED settings
            /\ IF "settings" \notin handles
                 THEN Handled(AutoreactEvent(u, state, "none", TRUE))
                 ELSE \E dbOk \in BOOLEAN :
                        IF ~dbOk \/ (variant = "group" /\ ~settings.present)
                          THEN Handled(AutoreactEvent(u, state, "none", TRUE))
                          ELSE Handled(AutoreactEvent(u, state,
                                 IF settings.present /\ settings.autoreact
                                   THEN "current_on" ELSE "current_off", FALSE))
     ELSE IF state \notin {"on", "off"}
       THEN /\ UNCHANGED settings
            /\ Handled(AutoreactEvent(u, state, "usage", FALSE))
     ELSE IF "settings" \notin handles
       THEN /\ UNCHANGED settings
            /\ IF UpdateGuarded(variant)
                 THEN Handled(AutoreactEvent(u, state, "confirm", FALSE))
                 ELSE Handled(AutoreactEvent(u, state, "none", TRUE))
     ELSE \E dbOk \in BOOLEAN :
            IF dbOk
              THEN /\ settings' = UpdateSetting(settings, state = "on")
                   /\ Handled(AutoreactEvent(u, state, "confirm", FALSE))
              ELSE /\ UNCHANGED settings
                   /\ Handled(AutoreactEvent(u, state, "none", TRUE))
  /\ UNCHANGED <<variant, env, boot, handles, users, links, bc, race, cr, timers>>

\* ---------------------------------------------------------------- bot.on('message')
HasAutoreactHandler(v) == v \in {"personal", "group", "full"}

\* plain text, a message without text (a photo, a sticker), or a text that
\* begins with "/" and that no handler registered before bot.on('message')
\* consumed ("/foo"; in the group-management variant also "/stats" and "/ping")
MessageKinds == {"text", "media", "command"}

\* bot.on('message') is registered in every variant but index.js
HasMessageHandler(v) == v # "index"

\* if (ctx.message.text && ctx.message.text.startsWith('/')) return next()
SkipsCommands(v) == v # "group"

\* async (ctx, next) => { ...; return next() }: the group-management variant's
\* handler takes no next and ends the chain
CallsNext(v) == v # "group"

\* settings && settings.autoreact && ctx.message.text; in the group-management
\* variant a missing document is a TypeError the handler's try swallows
ShouldReact(doc, kind) == doc.present /\ doc.autoreact /\ kind \in {"text", "command"}

MessageEvent(u, kind, reacts) ==
  LET e == Event("message", u, kind, "none", NoCode, NoCode, <<>>, reacts, 0, FALSE)
  IN IF HasMessageHandler(variant) /\ CallsNext(variant) THEN Passed(e) ELSE e

\* if (settingsCollection) guards the read in part_000:106 and part_002:232
ReadGuarded(v) == v \in {"personal", "full"}

\* A non-command message reaches the passive handler.  The settings document is
\* read from the store on every message; an error of the read (or, in the
\* group-management variant, of settings.autoreact on a missing document) is
\* caught and logged; ctx.react's own failure is ignored.
Message(u, kind) ==
  /\ phase = "running"
  /\ IF ~HasAutoreactHandler(variant) \/ (kind = "command" /\ SkipsCommands(variant))
       THEN Handled(MessageEvent(u, kind, <<>>))
     ELSE IF "settings" \notin handles
       THEN Handled(IF ReadGuarded(variant) THEN MessageEvent(u, kind, <<>>)
                    ELSE Logged(MessageEvent(u, kind, <<>>)))
     ELSE \E findOk \in BOOLEAN :
            IF ~findOk \/ (~ReadGuarded(variant) /\ ~settings.present)
              THEN Handled(Logged(MessageEvent(u, kind, <<>>)))
            ELSE IF ShouldReact(settings, kind)
              THEN \E i \in 1..Len(settings.autoreact_emojis) :
                     Handled(MessageEvent(u, kind, <<settings.autoreact_emojis[i]>>))
              ELSE Handled(MessageEvent(u, kind, <<>>))
  /\ UNCHANGED <<variant, env, boot, handles, users, settings, links, bc, race, cr, timers>>

\* ---------------------------------------------------------------- /mute
HasMute(v) == v = "group"

ReplyMissing_ignored(hasReply) == FALSE

\* if (!ctx.message.reply_to_message) return ctx.reply('Please reply to a user ...')
ReplyMissing(hasReply) == ~hasReply

MuteEvent(u, arg, reply, restricts) ==
  Event("mute", u, arg, reply, NoCode, NoCode, <<>>, <<>>, restricts, FALSE)

\* restrictChatMember is called once; its rejection is caught and reported
Mute(u, hasReply) ==
  /\ phase = "running"
  /\ HasMute(variant)
  /\ LET arg == IF hasReply THEN "reply" ELSE "noreply" IN
     IF ReplyMissing(hasReply)
       THEN Handled(MuteEvent(u, arg, "usage", 0))
       ELSE \E restrictOk \in BOOLEAN :
              Handled(MuteEvent(u, arg, IF restrictOk THEN "muted" ELSE "perm_error", 1))
  /\ UNCHANGED <<variant, env, boot, handles, users, settings, links, bc, race, cr, timers>>

\* ---------------------------------------------------------------- /schedule
HasSchedule(v) == v = "full"

\* args[1], character by character: "30s", "5m", "600h", "5", "s"
TimeArgs ==
  {<<"3", "0", "s">>, <<"5", "m">>, <<"6", "0", "0", "h">>, <<"5">>, <<"s">>}

Digits == {"0", "1", "2", "3", "4", "5", "6", "7", "8", "9"}

DigitValue(c) ==
  CASE c = "0" -> 0 [] c = "1" -> 1 [] c = "2" -> 2 [] c = "3" -> 3
    [] c = "4" -> 4 [] c = "5" -> 5 [] c = "6" -> 6 [] c = "7" -> 7
    [] c = "8" -> 8 [] c = "9" -> 9

\* the value parseInt and the arithmetic on it give when no digit leads the text
NaN == -1

\* the number read from the digits of t[i..], continuing acc
RECURSIVE LeadingDigits(_, _, _)
LeadingDigits(t, i, acc) ==
  IF i > Len(t) \/ t[i] \notin Digits THEN acc
  ELSE LeadingDigits(t, i + 1, acc * 10 + DigitValue(t[i]))

\* parseInt(time): the leading decimal digits, NaN when there is none
ParseInt(t) ==
  IF t = <<>> \/ t[1] \notin Digits THEN NaN ELSE LeadingDigits(t, 1, 0)

EndsWith(t, c) == t # <<>> /\ t[Len(t)] = c

HasUnit(t) == EndsWith(t, "s") \/ EndsWith(t, "m") \/ EndsWith(t, "h")

\* milliseconds = parseInt(time) * 1000, * 60 * 1000 or * 60 * 60 * 1000, held
\* as milliseconds / 1000: the program's numbers are doubles and its products
\* pass 2^31
Seconds(t) ==
  LET n == ParseInt(t)
  IN IF n = NaN THEN NaN
     ELSE IF EndsWith(t, "s") THEN n
     ELSE IF EndsWith(t, "m") THEN n * 60
     ELSE n * 60 * 60

\* the largest delay a timer of the runtime takes: 2^31 - 1 ms
TimeoutMax == 2147483647

\* setTimeout(fn, milliseconds): a delay that is NaN, below 1 or above the
\* largest one is set to 1 ms.  The result is in milliseconds.
TimerDelay(sec) ==
  IF sec = NaN \/ sec < 1 \/ sec > TimeoutMax \div 1000 THEN 1 ELSE sec * 1000

ScheduleEvent(u, reply, threw) ==
  Event("schedule", u, "", reply, NoCode, NoCode, <<>>, <<>>, 0, threw)

\* hasMsg: the text has a third word (args.length >= 3)
Schedule(u, time, hasMsg) ==
  /\ phase = "running"
  /\ HasSchedule(variant)
  /\ IF ~hasMsg
       THEN Handled(ScheduleEvent(u, "usage", FALSE)) /\ UNCHANGED timers
     ELSE IF ~HasUnit(time)
       THEN Handled(ScheduleEvent(u, "unit", FALSE)) /\ UNCHANGED timers
     ELSE /\ Len(timers) < MaxTimers
          /\ Handled(ScheduleEvent(u, "scheduled", FALSE))
          /\ timers' = Append(timers, [time |-> time,
                                       delay |-> TimerDelay(Seconds(time))])
  /\ UNCHANGED <<variant, env, boot, handles, users, settings, links, bc, race, cr>>

RemoveAt(seq, i) == SubSeq(seq, 1, i - 1) \o SubSeq(seq, i + 1, Len(seq))

\* a timer's callback runs: await ctx.reply('Scheduled message: ...') inside
\* try/catch; the process is alive whether or not the polling loop still is.
\* The reply goes to the chat of the /schedule, which the event leaves out.
TimerFire(i) ==
  /\ phase \in {"running", "stopped"}
  /\ i \in DOMAIN timers
  /\ \E sendOk \in BOOLEAN :
       LET e == Event("timer", 0, "",
                      IF sendOk THEN "scheduled_message" ELSE "none",
                      NoCode, NoCode, <<>>, <<>>, 0, FALSE)
       IN /\ last' = IF sendOk THEN e ELSE Logged(e)
          /\ prev' = Brief(last)
  /\ timers' = RemoveAt(timers, i)
  /\ UNCHANGED <<variant, env, phase, boot, handles, users, settings, links, bc, race, cr>>

\* the full-featured program with the handlers around /schedule
NextSchedule ==
  \/ Boot
  \/ \E u \in Users, time \in TimeArgs, hasMsg \in BOOLEAN : Schedule(u, time, hasMsg)
  \/ \E i \in 1..MaxTimers : TimerFire(i)

SpecSchedule == Init /\ [][NextSchedule]_vars

\* ---------------------------------------------------------------- programs
Next ==
  \/ Boot
  \/ \E u \in Users : Start(u)
  \/ \E u \in Users : Stats(u)
  \/ \E u \in Users, arg \in ArgForms : Autoreact(u, arg)
  \/ \E u \in Users, kind \in MessageKinds : Message(u, kind)
  \/ \E u \in Users, hasReply \in BOOLEAN : Mute(u, hasReply)

Spec == Init /\ [][Next]_vars

\* the programs with the handlers around /connect
NextLink ==
  \/ Boot
  \/ \E u \in Users : Start(u)
  \/ \E u \in Users : Connect(u)

SpecLink == Init /\ [][NextLink]_vars

\* ================================================================ claims

\* the number of sends of a broadcast that the platform rejected
Failures(results) == Cardinality({i \in DOMAIN results : ~results[i]})

\* C1: once a user's device-link record holds a code, no step changes it: the
\* code stored after the first /connect is the code stored after every later one.
C1_StoredCodeStable ==
  [][\A u \in Users : links[u] # NoCode => links'[u] = links[u]]_vars

\* a later /connect by a linked user has been handled
C1_Witness ==
  /\ last.cmd = "connect" /\ last.reply = "already_linked"
  /\ links[last.from] # NoCode

\* C2: when the completion report is issued for N enumerated recipients of
\* which K sends failed, it says Success = N-K and Failed = K, so the two
\* counters sum to N.
C2_ReportCounts ==
  bc.pc = "done" =>
    LET N == Len(bc.users)
        K == Failures(bc.results)
    IN /\ bc.report = <<N - K, K>>
       /\ bc.report[1] + bc.report[2] = N

\* a broadcast to two recipients finished with one failed send
C2_Witness ==
  bc.pc = "done" /\ Len(bc.users) = 2 /\ Failures(bc.results) = 1

\* C3: the recipients are attempted one at a time in the enumerated order, and
\* when the broadcast is done every one of them was attempted exactly once,
\* whichever sends failed.
C3_SequentialInOrder ==
  /\ bc.inflight <= 1
  /\ Len(bc.attempts) <= Len(bc.users)
  /\ \A i \in DOMAIN bc.attempts : bc.attempts[i] = bc.users[i]
  /\ bc.pc = "sending" => bc.inflight = 1 /\ Len(bc.attempts) = bc.idx
  /\ bc.pc = "done" => bc.attempts = bc.users /\ Len(bc.results) = Len(bc.users)

\* the first send failed and the second recipient was attempted all the same
C3_Witness ==
  /\ bc.pc = "done" /\ Len(bc.users) = 2
  /\ bc.results[1] = FALSE /\ Len(bc.attempts) = 2

\* C4: a plain-text message handled right after a /autoreact off command gets
\* no reaction call.
C4_OffThenNoReaction ==
  (prev.cmd = "autoreact" /\ prev.arg = "off" /\ last.cmd = "message"
     /\ last.arg = "text")
    => last.reacts = <<>>

\* the toggle was written to an existing settings document and a text followed
C4_Witness ==
  /\ prev.cmd = "autoreact" /\ prev.arg = "off" /\ prev.reply = "confirm"
  /\ last.cmd = "message" /\ last.arg = "text"
  /\ "settings" \in handles /\ settings.present /\ ~settings.autoreact

\* C5: a plain-text message handled right after a confirmed /autoreact on gets
\* exactly one reaction call, with an emoji of the configured set (stated for
\* the messages whose handling met no store error).
C5_OnThenOneReaction ==
  (prev.cmd = "autoreact" /\ prev.arg = "on" /\ prev.reply = "confirm"
     /\ last.cmd = "message" /\ last.arg = "text" /\ ~last.logged)
    => /\ Len(last.reacts) = 1
       /\ \E i \in DOMAIN DefaultSettings.autoreact_emojis :
            last.reacts[1] = DefaultSettings.autoreact_emojis[i]

\* C6: with every collection handle unset, /stats replies with "N/A" for both
\* counts, does not throw, and the bot keeps running.
C6_StatsNA ==
  (last.cmd = "stats" /\ handles = {})
    => /\ last.reply = "stats"
       /\ last.counts = <<"N/A", "N/A">>
       /\ ~last.threw
       /\ phase = "running"
       /\ boot.exitCode = -1

\* /stats was handled without a store
C6_Witness == last.cmd = "stats" /\ handles = {} /\ last.reply = "stats"

\* C7: /mute on a message that replies to nothing answers with the usage
\* error and makes no restriction call.
C7_MuteNeedsReply ==
  (last.cmd = "mute" /\ last.arg = "noreply")
    => last.reply = "usage" /\ last.restricts = 0

\* /mute without reply-to context was handled
C7_Witness == last.cmd = "mute" /\ last.arg = "noreply" /\ last.reply = "usage"

\* C8: without a bot token the process exits with status 1 before the platform
\* client is created or launched and before a database client is created or
\* connected.
C8_NoTokenExitsFirst ==
  ~env.token =>
    /\ ~boot.botCreated /\ ~boot.launchTried
    /\ ~boot.mongoCreated /\ ~boot.connectTried
    /\ phase # "load" => phase = "exited" /\ boot.exitCode = 1

\* C9: a /connect that finds the user's device-link record replies with the
\* stored code, unchanged, and generates no new code.
C9_RepeatReturnsStoredCode ==
  [][\A u \in Users :
       (Connect(u) /\ links[u] # NoCode /\ last'.reply = "already_linked")
         => (last'.code = links[u] /\ last'.gen = NoCode /\ links'[u] = links[u])]_vars

\* C10 as stated: a broadcast that enumerated no recipient reports {0,0}
\* with no platform call of any kind made before the report.
C10_EmptyNoPlatformCall ==
  (bc.pc = "done" /\ bc.users = <<>>)
    => bc.report = <<0, 0>> /\ bc.calls = 0

\* C10 as amended: a broadcast that enumerated no recipient reports {0,0}
\* without any send attempt; the one platform call before the report is the
\* "Starting broadcast" notice to the invoker.
C10_EmptyNoSend ==
  (bc.pc = "done" /\ bc.users = <<>>)
    => /\ bc.report = <<0, 0>>
       /\ bc.attempts = <<>> /\ bc.results = <<>>
       /\ bc.calls = 1

\* a broadcast over an empty user collection has reported
C10_Witness == bc.pc = "done" /\ bc.users = <<>> /\ bc.report = <<0, 0>>

\* C11: a /broadcast from a caller who is not in the administrator list starts
\* no broadcast: it is answered with the admin-only notice and throws nothing;
\* with no ADMINS configured that holds for every caller.
C11_NonAdminGetsNotice ==
  (last.cmd = "broadcast" /\ ~IsAdmin(last.from))
    => last.reply = "admin_only" /\ ~last.threw

\* C12: while every collection handle is unset, no handler throws.
C12_NoThrowWithoutStore ==
  handles = {} => ~last.threw

\* C13: every send attempt of a broadcast but the first is issued after one
\* more pacing delay than the attempt before it, whether that one succeeded or
\* failed: when the n-th attempt is in flight, n - 1 delays have elapsed.
C13_DelayBeforeEverySend ==
  bc.pc = "sending" => bc.delays = Len(bc.attempts) - 1

\* C14: after a confirmed /autoreact on|off with the settings handle set, the
\* settings document exists and its autoreact flag is the requested state.
C14_ToggleUpserts ==
  (last.cmd = "autoreact" /\ last.arg \in {"on", "off"} /\ last.reply = "confirm"
     /\ "settings" \in handles)
    => settings.present /\ settings.autoreact = (last.arg = "on")

\* C15: with the store unavailable, the auto-react handler decides against the
\* default settings (autoreact on, default emojis): a plain-text message gets
\* one reaction call with a default emoji.
C15_DefaultsWithoutStore ==
  (last.cmd = "message" /\ last.arg = "text" /\ HasAutoreactHandler(variant)
     /\ handles = {})
    => /\ Len(last.reacts) = 1
       /\ \E i \in DOMAIN DefaultSettings.autoreact_emojis :
            last.reacts[1] = DefaultSettings.autoreact_emojis[i]

\* C16: a message whose text begins with "/" gets no reaction call from the
\* auto-react handler, whether or not a handler is registered for the command.
C16_CommandsGetNoReaction ==
  (last.cmd = "message" /\ last.arg = "command") => last.reacts = <<>>

\* C17: the passive message handler calls next exactly once on every path.
C17_MessageHandlerCallsNext ==
  (last.cmd = "message" /\ HasMessageHandler(variant)) => last.nexts = 1

\* C18: the settings collection never holds two documents with the id
\* "global", and when two initSettings callers both found none and both
\* inserted, the second insert raises no error into its caller.
C18_RaceHarmless ==
  /\ Cardinality({i \in DOMAIN race.docs : race.docs[i] = SettingsId}) <= 1
  /\ \A p \in Callers : race.dup[p] => race.pc[p] # "raised"

\* C19: a /broadcast whose enumeration of the recipients fails replies once
\* with the error, throws nothing and leaves the broadcast state as it was (no
\* send attempt, no report); a send that resolves or rejects only moves the
\* loop on and leaves the handler's replies and the bot's run state alone.
C19_EnumerationFailureAborts ==
  [][/\ \A u \in Users, hasMsg \in BOOLEAN :
          (BroadcastStart(u, hasMsg) /\ last'.reply = "error")
            => (bc' = bc /\ last'.logged /\ ~last'.threw /\ phase' = "running")
     /\ (bc.pc = "sending" /\ bc'.pc # "sending")
          => /\ bc'.pc \in {"delay", "loop"}
             /\ bc'.users = bc.users /\ bc'.report = <<>>
             /\ last' = last /\ phase' = phase]_vars

\* the enumeration failed with the users handle set, and the invoker was told
C19_Witness ==
  /\ last.cmd = "broadcast" /\ last.reply = "error" /\ last.logged
  /\ "users" \in handles /\ bc.pc = "idle"

\* C20: a /start handled with the store answering leaves exactly one record of
\* its user: a first one appends it, a later one leaves the collection as it
\* is; no step removes or moves a record, and no id is stored twice.
C20_OneRecordPerStarter ==
  [][/\ \A u \in Users :
          (Start(u) /\ "users" \in handles /\ ~last'.logged /\ ~last'.threw)
            => /\ Cardinality({i \in DOMAIN users' : users'[i] = u}) = 1
               /\ IF \E i \in DOMAIN users : users[i] = u
                    THEN users' = users
                    ELSE users' = Append(users, u)
     /\ \A i \in DOMAIN users : i \in DOMAIN users' /\ users'[i] = users[i]
     /\ \A i, j \in DOMAIN users' : users'[i] = users'[j] => i = j]_vars

\* the first recorded user sent /start again after a second user was recorded
C20_Witness ==
  /\ Len(users) = 2 /\ last.cmd = "start" /\ last.from = users[1]
  /\ "users" \in handles /\ ~last.logged /\ ~last.threw

\* C21: a /connect handled while the links handle is unset replies with the
\* database-required message, generates no code, issues no store operation and
\* throws nothing; and as long as the handle is unset no link is stored.
C21_ConnectWithoutStore ==
  /\ (last.cmd = "connect" /\ "links" \notin handles)
       => /\ last.reply = "db_required" /\ last.code = NoCode
          /\ last.gen = NoCode /\ last.ops = 0
          /\ ~last.threw /\ ~last.logged
          /\ phase = "running"
  /\ "links" \notin handles => links = [u \in Users |-> NoCode]

\* /connect was answered with the database-required message
C21_Witness ==
  /\ last.cmd = "connect" /\ last.reply = "db_required"
  /\ "links" \notin handles /\ phase = "running"

\* a time argument of the form N followed by s, m or h
ValidTime(t) ==
  /\ Len(t) >= 2
  /\ \A i \in 1..(Len(t) - 1) : t[i] \in Digits
  /\ t[Len(t)] \in {"s", "m", "h"}

\* C22: every deferred reply registered by /schedule with a valid time
\* argument is due after the delay of N seconds, minutes or hours.
C22_DeferredAfterDelay ==
  \A i \in DOMAIN timers :
    ValidTime(timers[i].time)
      => /\ timers[i].delay % 1000 = 0
         /\ timers[i].delay \div 1000 = Seconds(timers[i].time)

\* C23: a connectDB that took its error branch, at connect or at index
\* creation, leaves every collection handle unset; and the handles change in
\* no step other than connectDB's, which runs before the launch.
C23_FailedConnectLeavesNoHandle ==
  [][/\ \A outcome \in {"connect_fail", "index_fail"} :
          ConnectDBOutcome(outcome) => handles' = {}
     /\ phase # "connect" => handles' = handles]_vars

\* C24: once two interleaved /connect handlers of one user have both
\* completed, the user has at most one device-link record, and every code a
\* handler reported as newly generated is the code that record holds.
C24_ReportedCodeIsStored ==
  (\A h \in CrHandlers : cr.pc[h] = "done")
    => /\ Len(cr.docs) <= 1
       /\ \A h \in CrHandlers :
            cr.out[h] = "code_generated" => cr.code[h] = Existing(cr.docs)

====
